---------------------------- MODULE Spec2Model ----------------------------
(***************************************************************************)
(* A model of photo_watermark.py: the EXIF date lookup, the colour parser, *)
(* the watermark placement, and a run of main over a small file system.    *)
(*                                                                         *)
(* Text is modelled as a sequence of one-character strings, so that        *)
(* suffixes, case folding, slicing and number parsing are computed, not    *)
(* assumed.  A Python exception is a record with a non-empty exc field.    *)
(***************************************************************************)
EXTENDS Integers, Sequences, FiniteSets, TLC

VARIABLES
    platform,       \* sys.platform of the host
    argv,           \* the parsed command line: input_path, color, position
    fs,             \* the file system: path -> node
    fs0,            \* the file system as it was when main started
    pc,             \* main's position
    color,          \* main's local: the parsed colour
    output_dir,     \* the output directory path, once computed
    exts_left,      \* process_directory: extensions the glob loop has yet to visit
    image_files,    \* process_directory: the enumerated list
    idx,            \* process_directory: number of list entries already visited
    success_count,  \* process_directory: the success counter
    outcomes,       \* per list entry, how its iteration ended
    stdout,         \* the printed messages, in order
    raised,         \* the exception that left main, "" when none
    arg,            \* the argument of a pure function under test
    ret             \* its result

vars == <<platform, argv, fs, fs0, pc, color, output_dir, exts_left, image_files,
          idx, success_count, outcomes, stdout, raised, arg, ret>>

runVars == <<platform, argv, fs, fs0, pc, color, output_dir, exts_left,
             image_files, idx, success_count, outcomes, stdout, raised>>

-----------------------------------------------------------------------------
(* Characters and text *)

Digits == <<"0", "1", "2", "3", "4", "5", "6", "7", "8", "9">>

LowerLetters == <<"a", "b", "c", "d", "e", "f", "g", "h", "i", "j", "k", "l", "m",
                  "n", "o", "p", "q", "r", "s", "t", "u", "v", "w", "x", "y", "z">>

UpperLetters == <<"A", "B", "C", "D", "E", "F", "G", "H", "I", "J", "K", "L", "M",
                  "N", "O", "P", "Q", "R", "S", "T", "U", "V", "W", "X", "Y", "Z">>

IndexIn(c, alphabet) ==
    IF \E i \in 1..Len(alphabet) : alphabet[i] = c
    THEN CHOOSE i \in 1..Len(alphabet) : alphabet[i] = c
    ELSE 0

LowerChar(c) ==
    IF IndexIn(c, UpperLetters) > 0 THEN LowerLetters[IndexIn(c, UpperLetters)] ELSE c

UpperChar(c) ==
    IF IndexIn(c, LowerLetters) > 0 THEN UpperLetters[IndexIn(c, LowerLetters)] ELSE c

Lower(s) == [i \in 1..Len(s) |-> LowerChar(s[i])]

Upper(s) == [i \in 1..Len(s) |-> UpperChar(s[i])]

\* s[a:b] of Python, 0-based and clipped to the text.
Slice(s, a, b) ==
    LET lo == IF a < Len(s) THEN a ELSE Len(s)
        hi == IF b < Len(s) THEN b ELSE Len(s)
    IN  IF hi <= lo THEN <<>> ELSE SubSeq(s, lo + 1, hi)

StartsWith(s, p) == Len(s) >= Len(p) /\ SubSeq(s, 1, Len(p)) = p

EndsWith(s, p) == Len(s) >= Len(p) /\ SubSeq(s, Len(s) - Len(p) + 1, Len(s)) = p

\* The value of a digit in the given base, -1 when c is no digit of it.
DigitValue(c, base) ==
    LET d == IndexIn(c, Digits)
        l == IndexIn(LowerChar(c), LowerLetters)
        v == IF d > 0 THEN d - 1 ELSE IF l > 0 THEN l + 9 ELSE -1
    IN  IF v < base THEN v ELSE -1

IsDigit(c) == DigitValue(c, 10) >= 0

RECURSIVE LStrip(_, _)
LStrip(s, c) == IF s # <<>> /\ Head(s) = c THEN LStrip(Tail(s), c) ELSE s

RECURSIVE RStrip(_, _)
RStrip(s, c) ==
    IF s # <<>> /\ s[Len(s)] = c THEN RStrip(SubSeq(s, 1, Len(s) - 1), c) ELSE s

RECURSIVE DigitsValue(_, _)
DigitsValue(s, base) ==
    IF s = <<>> THEN 0
    ELSE IF s[Len(s)] = "_" THEN DigitsValue(SubSeq(s, 1, Len(s) - 1), base)
    ELSE DigitsValue(SubSeq(s, 1, Len(s) - 1), base) * base + DigitValue(s[Len(s)], base)

\* The position of the k-th separator of s; 0 before the first piece and
\* Len(s) + 1 after the last.
Cut(s, sep, k) ==
    IF k = 0 THEN 0
    ELSE IF k > Cardinality({i \in 1..Len(s) : s[i] = sep}) THEN Len(s) + 1
    ELSE CHOOSE i \in 1..Len(s) :
             s[i] = sep /\ Cardinality({j \in 1..i : s[j] = sep}) = k

\* str.split(sep) for a one-character separator: always at least one piece.
Split(s, sep) ==
    [k \in 1..(Cardinality({i \in 1..Len(s) : s[i] = sep}) + 1) |->
        SubSeq(s, Cut(s, sep, k - 1) + 1, Cut(s, sep, k) - 1)]

\* F applied to the value of e, which is computed once.
Apply(F(_), e) == CHOOSE y \in {F(x) : x \in {e}} : TRUE

\* int(s, base): surrounding blanks stripped, an optional sign, then digits
\* that single underscores may separate.
PyInt(s, base) ==
    LET t     == RStrip(LStrip(s, " "), " ")
        neg   == t # <<>> /\ Head(t) = "-"
        body  == IF t # <<>> /\ Head(t) \in {"+", "-"} THEN Tail(t) ELSE t
        valid == /\ body # <<>>
                 /\ body[1] # "_" /\ body[Len(body)] # "_"
                 /\ \A i \in 1..Len(body) :
                        \/ DigitValue(body[i], base) >= 0
                        \/ body[i] = "_" /\ body[i + 1] # "_"
    IN  IF ~valid THEN [exc |-> "ValueError", val |-> 0]
        ELSE [exc |-> "", val |-> IF neg THEN 0 - DigitsValue(body, base)
                                         ELSE DigitsValue(body, base)]

-----------------------------------------------------------------------------
(* datetime.strptime(value, '%Y:%m:%d %H:%M:%S') and strftime('%Y-%m-%d') *)

Str(chars) == [type |-> "str", chars |-> chars]

\* An EXIF value that Pillow hands over as something other than text.
Bytes(chars) == [type |-> "bytes", chars |-> chars]

RECURSIVE DigitRun(_, _)
DigitRun(s, i) == IF i <= Len(s) /\ IsDigit(s[i]) THEN 1 + DigitRun(s, i + 1) ELSE 0

RECURSIVE SpaceRun(_, _)
SpaceRun(s, i) == IF i <= Len(s) /\ s[i] = " " THEN 1 + SpaceRun(s, i + 1) ELSE 0

IsAt(s, i, c) == i <= Len(s) /\ s[i] = c

IsLeap(y) == (y % 4 = 0 /\ y % 100 # 0) \/ y % 400 = 0

DaysInMonth(y, m) ==
    IF m = 2 THEN (IF IsLeap(y) THEN 29 ELSE 28)
    ELSE IF m \in {4, 6, 9, 11} THEN 30 ELSE 31

AllDigits(t) == t # <<>> /\ \A i \in 1..Len(t) : IsDigit(t[i])

\* The text between the second and the third colon: the day, blanks, the hour.
\* %d takes one or two digits, or a blank and one digit; the blank of the
\* format takes one or more blanks.
DayOf(mid) ==
    LET lead == IF IsAt(mid, 1, " ") THEN 1 ELSE 0
    IN  SubSeq(mid, 1 + lead, lead + DigitRun(mid, 1 + lead))

HourOf(mid) ==
    LET lead == IF IsAt(mid, 1, " ") THEN 1 ELSE 0
        from == 1 + lead + DigitRun(mid, 1 + lead)
    IN  SubSeq(mid, from + SpaceRun(mid, from), Len(mid))

DayHourShape(mid) ==
    LET lead == IF IsAt(mid, 1, " ") THEN 1 ELSE 0
        from == 1 + lead + DigitRun(mid, 1 + lead)
    IN  /\ Len(DayOf(mid)) \in 1..(2 - lead)
        /\ SpaceRun(mid, from) >= 1
        /\ AllDigits(HourOf(mid)) /\ Len(HourOf(mid)) \in 1..2

\* The colons cut the text into year, month, day and hour, minute, second.
\* Each directive takes one or two digits (%Y exactly four) and nothing may
\* follow the seconds; the fields then have to make a date datetime accepts.
StampShape(parts) ==
    /\ Len(parts) = 5
    /\ AllDigits(parts[1]) /\ Len(parts[1]) = 4
    /\ AllDigits(parts[2]) /\ Len(parts[2]) \in 1..2
    /\ DayHourShape(parts[3])
    /\ AllDigits(parts[4]) /\ Len(parts[4]) \in 1..2
    /\ AllDigits(parts[5]) /\ Len(parts[5]) \in 1..2

StampFields(parts) ==
    /\ DigitsValue(parts[1], 10) >= 1
    /\ DigitsValue(parts[2], 10) \in 1..12
    /\ DigitsValue(DayOf(parts[3]), 10)
           \in 1..DaysInMonth(DigitsValue(parts[1], 10), DigitsValue(parts[2], 10))
    /\ DigitsValue(HourOf(parts[3]), 10) \in 0..23
    /\ DigitsValue(parts[4], 10) \in 0..59
    /\ DigitsValue(parts[5], 10) \in 0..59

ParseStamp(parts) ==
    IF StampShape(parts) /\ StampFields(parts)
    THEN [exc |-> "", val |-> <<DigitsValue(parts[1], 10), DigitsValue(parts[2], 10),
                                DigitsValue(DayOf(parts[3]), 10)>>]
    ELSE [exc |-> "ValueError", val |-> <<0, 0, 0>>]

StrPTime(value) ==
    IF value.type # "str" THEN [exc |-> "TypeError", val |-> <<0, 0, 0>>]
    ELSE Apply(ParseStamp, Split(value.chars, ":"))

RECURSIVE Padded(_, _)
Padded(n, width) ==
    IF width = 0 THEN <<>> ELSE Append(Padded(n \div 10, width - 1), Digits[(n % 10) + 1])

\* Years 1000..9999, which every platform renders with four digits.
StrFTime(ymd) == Padded(ymd[1], 4) \o <<"-">> \o Padded(ymd[2], 2) \o <<"-">> \o Padded(ymd[3], 2)

-----------------------------------------------------------------------------
(* PhotoWatermark.get_shooting_date *)

None == <<"None">>

\* The tag names in the order the two lookups try them.
TagOrder == <<"DateTime", "DateTimeOriginal", "DateTimeDigitized">>

NoExif == [state |-> "none", tags |-> <<>>]

BadExif == [state |-> "raise", tags |-> <<>>]

Exif(tags) == [state |-> "tags", tags |-> tags]

RECURSIVE SearchTags(_, _)
SearchTags(tags, i) ==
    IF i > Len(TagOrder) THEN [exc |-> "", val |-> None]
    ELSE IF TagOrder[i] \notin DOMAIN tags THEN SearchTags(tags, i + 1)
    ELSE LET dt == StrPTime(tags[TagOrder[i]])
         IN  IF dt.exc = "" THEN [exc |-> "", val |-> StrFTime(dt.val)]
             ELSE IF dt.exc = "ValueError" THEN SearchTags(tags, i + 1)
             ELSE [exc |-> dt.exc, val |-> None]

\* The body of the try block: open the image, read the EXIF mapping, search it.
ReadShootingDate(img) ==
    IF ~img.decodable THEN [exc |-> "UnidentifiedImageError", val |-> None]
    ELSE IF img.exif.state = "raise" THEN [exc |-> "SyntaxError", val |-> None]
    ELSE IF img.exif.state = "none" THEN [exc |-> "", val |-> None]
    ELSE SearchTags(img.exif.tags, 1)

\* The mistake of a lookup without the outer handler.
get_shooting_date_NoHandler(img) ==
    [exc |-> ReadShootingDate(img).exc, val |-> ReadShootingDate(img).val, logged |-> FALSE]

\* The outer handler turns every exception into None.
get_shooting_date(img) ==
    LET r == ReadShootingDate(img)
    IN  IF r.exc # "" THEN [exc |-> "", val |-> None, logged |-> TRUE]
        ELSE [exc |-> "", val |-> r.val, logged |-> FALSE]

-----------------------------------------------------------------------------
(* parse_color *)

White == <<255, 255, 255>>

\* The table of predefined names.
colors ==
    { [name |-> <<"w", "h", "i", "t", "e">>, rgb |-> <<255, 255, 255>>],
      [name |-> <<"b", "l", "a", "c", "k">>, rgb |-> <<0, 0, 0>>],
      [name |-> <<"r", "e", "d">>, rgb |-> <<255, 0, 0>>],
      [name |-> <<"g", "r", "e", "e", "n">>, rgb |-> <<0, 255, 0>>],
      [name |-> <<"b", "l", "u", "e">>, rgb |-> <<0, 0, 255>>],
      [name |-> <<"y", "e", "l", "l", "o", "w">>, rgb |-> <<255, 255, 0>>],
      [name |-> <<"c", "y", "a", "n">>, rgb |-> <<0, 255, 255>>],
      [name |-> <<"m", "a", "g", "e", "n", "t", "a">>, rgb |-> <<255, 0, 255>>] }

\* tuple(int(color_str[i:i+2], 16) for i in (0, 2, 4)) after lstrip('#')
HexBranch(color_str) ==
    LET h == LStrip(color_str, "#")
        c == [k \in 1..3 |-> PyInt(Slice(h, 2 * (k - 1), 2 * k), 16)]
    IN  IF \E k \in 1..3 : c[k].exc # "" THEN [exc |-> "ValueError", val |-> <<>>]
        ELSE [exc |-> "", val |-> [k \in 1..3 |-> c[k].val]]

\* tuple(map(int, color_str.split(',')))
CommaBranch(color_str) ==
    LET parts == Split(color_str, ",")
        c     == [k \in 1..Len(parts) |-> PyInt(parts[k], 10)]
    IN  IF \E k \in 1..Len(parts) : c[k].exc # "" THEN [exc |-> "ValueError", val |-> <<>>]
        ELSE [exc |-> "", val |-> [k \in 1..Len(parts) |-> c[k].val]]

\* colors.get(color_str.lower(), (255, 255, 255))
NameBranch(color_str) ==
    LET hit == {e \in colors : e.name = Lower(color_str)}
    IN  [exc |-> "", val |-> IF hit = {} THEN White ELSE (CHOOSE e \in hit : TRUE).rgb]

parse_color(color_str) ==
    LET r == IF StartsWith(color_str, <<"#">>) THEN HexBranch(color_str)
             ELSE IF \E i \in 1..Len(color_str) : color_str[i] = "," THEN CommaBranch(color_str)
             ELSE NameBranch(color_str)
    IN  IF r.exc # "" THEN White ELSE r.val

-----------------------------------------------------------------------------
(* PhotoWatermark.add_watermark: where the text goes *)

margin == 20

Positions == {"top-left", "top-right", "center", "bottom-left", "bottom-right"}

\* The mistake of keeping the text inside the image: negative coordinates
\* are raised to zero.
WatermarkXY_Clamped(img_width, img_height, text_width, text_height, position) ==
    LET x == IF position \in {"top-left", "bottom-left"} THEN margin
             ELSE IF position = "center" THEN (img_width - text_width) \div 2
             ELSE img_width - text_width - margin
        y == IF position \in {"top-left", "top-right"} THEN margin
             ELSE IF position = "center" THEN (img_height - text_height) \div 2
             ELSE img_height - text_height - margin
    IN  <<IF x < 0 THEN 0 ELSE x, IF y < 0 THEN 0 ELSE y>>

\* The (x, y) handed to draw.text for an image of img_width x img_height and a
\* text box of text_width x text_height.
WatermarkXY(img_width, img_height, text_width, text_height, position) ==
    IF position = "top-left" THEN <<margin, margin>>
    ELSE IF position = "top-right" THEN <<img_width - text_width - margin, margin>>
    ELSE IF position = "center"
         THEN <<(img_width - text_width) \div 2, (img_height - text_height) \div 2>>
    ELSE IF position = "bottom-left" THEN <<margin, img_height - text_height - margin>>
    ELSE <<img_width - text_width - margin, img_height - text_height - margin>>

-----------------------------------------------------------------------------
(* Paths and the file system.  A path is a sequence of names, relative to the *)
(* directory main is started in; a name is a text.                            *)

supported_formats ==
    {<<".", "j", "p", "g">>, <<".", "j", "p", "e", "g">>, <<".", "p", "n", "g">>, <<".", "b", "m", "p">>, <<".", "t", "i", "f", "f">>, <<".", "t", "i", "f">>}

\* sys.platform values; "darwin" globs as "linux" does.
Platforms == {"win32", "linux"}

\* str.rfind('.') as a 1-based index, 0 when there is no dot.
LastDot(name) ==
    IF \E i \in 1..Len(name) : name[i] = "."
    THEN CHOOSE i \in 1..Len(name) : name[i] = "." /\ \A j \in (i + 1)..Len(name) : name[j] # "."
    ELSE 0

\* PurePath.suffix and PurePath.stem: a leading or a trailing dot starts no suffix.
Suffix(path) ==
    LET name == path[Len(path)]
        i    == LastDot(name)
    IN  IF 1 < i /\ i < Len(name) THEN SubSeq(name, i, Len(name)) ELSE <<>>

Stem(path) ==
    LET name == path[Len(path)]
        i    == LastDot(name)
    IN  IF 1 < i /\ i < Len(name) THEN SubSeq(name, 1, i - 1) ELSE name

Parent(path) == SubSeq(path, 1, Len(path) - 1)

Exists(files, path) == path \in DOMAIN files

IsFile(files, path) == Exists(files, path) /\ files[path].kind = "file"

IsDir(files, path) == Exists(files, path) /\ files[path].kind = "dir"

DirNode == [kind |-> "dir", data |-> <<>>]

FileNode(data) == [kind |-> "file", data |-> data]

\* Path.mkdir(exist_ok=True): a directory already there is reused, anything
\* else of that name raises.
Mkdir(files, path) ==
    IF ~Exists(files, path) THEN [exc |-> "", fs |-> (path :> DirNode) @@ files]
    ELSE IF IsDir(files, path) THEN [exc |-> "", fs |-> files]
    ELSE [exc |-> "FileExistsError", fs |-> files]

\* Whether the glob pattern '*' + ext selects a name: the name ends with ext,
\* compared as written on POSIX and without regard to case on Windows.
GlobSelects(host, name, ext) ==
    IF host = "win32" THEN EndsWith(Lower(name), Lower(ext)) ELSE EndsWith(name, ext)

\* Path.glob('*' + ext): the entries of the directory the pattern selects.
Glob(host, files, dir, ext) ==
    {p \in DOMAIN files : Len(p) = Len(dir) + 1 /\ Parent(p) = dir
                          /\ GlobSelects(host, p[Len(p)], ext)}

\* The orders a directory scan may list a set of entries in.
Orderings(S) ==
    {q \in [1..Cardinality(S) -> S] : \A i, j \in 1..Cardinality(S) : q[i] = q[j] => i = j}

-----------------------------------------------------------------------------
(* PhotoWatermark.add_watermark *)

\* The four characters of the placeholder, one name per character.
Placeholder == <<"wei", "zhi", "ri", "qi">>

GlyphWidth == 3

GlyphHeight == 5

ImageWidth == 64

ImageHeight == 48

\* draw.textbbox((0, 0), text, font): the box grows with the text.
TextBBox(text) == <<0, 0, GlyphWidth * Len(text), GlyphHeight>>

\* The composed image: the text, where it was drawn, and its colour.
Watermarked(img, text, xy, rgb) ==
    [of |-> img, text |-> text, xy |-> xy, fill |-> rgb]

\* The mistake of saving over the file that was read.
OutputPath_InPlace(out_dir, img_path) == img_path

OutputPath(out_dir, img_path) == out_dir \o <<img_path[Len(img_path)]>>

\* add_watermark once the image is open and get_shooting_date has answered.
Compose(files, image_path, output_path, rgb, position, found) ==
    LET name   == image_path[Len(image_path)]
        img    == files[image_path].data
        date   == IF found.val = None THEN Placeholder ELSE found.val
        notes  == (IF found.logged THEN <<[msg |-> "exif error", name |-> name]>> ELSE <<>>)
                  \o (IF found.val = None THEN <<[msg |-> "no shooting date", name |-> name]>>
                      ELSE <<>>)
        bbox   == TextBBox(date)
        xy     == WatermarkXY(ImageWidth, ImageHeight, bbox[3] - bbox[1], bbox[4] - bbox[2], position)
    IN  IF found.exc # "" \/ ~img.encodable \/ IsDir(files, output_path)
        THEN [exc |-> "OSError", fs |-> files,
              out |-> notes \o <<[msg |-> "error processing", name |-> name]>>]
        ELSE [exc |-> "", fs |-> (output_path :> FileNode(Watermarked(img, date, xy, rgb))) @@ files,
              out |-> notes \o <<[msg |-> "saved", name |-> output_path[Len(output_path)]]>>]

\* The result of one call: the exception it raises ("" for none), the file
\* system it leaves and what it prints.
add_watermark(files, image_path, output_path, rgb, position) ==
    IF ~IsFile(files, image_path) \/ ~files[image_path].data.decodable
    THEN [exc |-> "UnidentifiedImageError", fs |-> files,
          out |-> <<[msg |-> "error processing", name |-> image_path[Len(image_path)]]>>]
    ELSE Apply(LAMBDA found : Compose(files, image_path, output_path, rgb, position, found),
               get_shooting_date(files[image_path].data))

-----------------------------------------------------------------------------
(* main and PhotoWatermark.process_directory *)

WatermarkSuffix == <<"_", "w", "a", "t", "e", "r", "m", "a", "r", "k">>

\* main: the path is neither a file nor a directory.
MainMissingPath ==
    /\ pc = "start"
    /\ ~IsFile(fs, argv.input_path) /\ ~IsDir(fs, argv.input_path)
    /\ color' = parse_color(argv.color)
    /\ stdout' = Append(stdout, [msg |-> "path does not exist", name |-> argv.input_path[Len(argv.input_path)]])
    /\ pc' = "done"
    /\ UNCHANGED <<platform, argv, fs, fs0, output_dir, exts_left, image_files, idx,
                   success_count, outcomes, raised, arg, ret>>

\* The mistake of making the output directory before looking at the suffix.
MainUnsupportedFile_MkdirFirst ==
    /\ pc = "start"
    /\ IsFile(fs, argv.input_path)
    /\ Lower(Suffix(argv.input_path)) \notin supported_formats
    /\ color' = parse_color(argv.color)
    /\ fs' = Mkdir(fs, Parent(argv.input_path) \o <<Stem(argv.input_path) \o WatermarkSuffix>>).fs
    /\ stdout' = Append(stdout, [msg |-> "unsupported format", name |-> Suffix(argv.input_path)])
    /\ pc' = "done"
    /\ UNCHANGED <<platform, argv, fs0, output_dir, exts_left, image_files, idx,
                   success_count, outcomes, raised, arg, ret>>

\* main: a single file whose suffix is not supported.
MainUnsupportedFile ==
    /\ pc = "start"
    /\ IsFile(fs, argv.input_path)
    /\ Lower(Suffix(argv.input_path)) \notin supported_formats
    /\ color' = parse_color(argv.color)
    /\ stdout' = Append(stdout, [msg |-> "unsupported format", name |-> Suffix(argv.input_path)])
    /\ pc' = "done"
    /\ UNCHANGED <<platform, argv, fs, fs0, output_dir, exts_left, image_files, idx,
                   success_count, outcomes, raised, arg, ret>>

\* main: a single supported file; the output directory is made before the try.
MainSingleFile ==
    /\ pc = "start"
    /\ IsFile(fs, argv.input_path)
    /\ Lower(Suffix(argv.input_path)) \in supported_formats
    /\ color' = parse_color(argv.color)
    /\ \E dir \in {Parent(argv.input_path) \o <<Stem(argv.input_path) \o WatermarkSuffix>>} :
         \E made \in {Mkdir(fs, dir)} :
           /\ output_dir' = dir
           /\ fs' = made.fs
           /\ raised' = made.exc
           /\ pc' = IF made.exc = "" THEN "single" ELSE "done"
    /\ UNCHANGED <<platform, argv, fs0, exts_left, image_files, idx,
                   success_count, outcomes, stdout, arg, ret>>

\* main: the call of add_watermark for the single file, inside its try.
SingleAdd ==
    /\ pc = "single"
    /\ \E r \in {add_watermark(fs, argv.input_path, OutputPath(output_dir, argv.input_path),
                              color, argv.position)} :
           /\ fs' = r.fs
           /\ outcomes' = Append(outcomes, IF r.exc = "" THEN "ok" ELSE "failed")
           /\ stdout' = stdout \o r.out
                        \o <<IF r.exc = "" THEN [msg |-> "done", name |-> argv.input_path[Len(argv.input_path)]]
                             ELSE [msg |-> "processing failed", name |-> argv.input_path[Len(argv.input_path)]]>>
    /\ pc' = "done"
    /\ UNCHANGED <<platform, argv, fs0, color, output_dir, exts_left, image_files, idx,
                   success_count, raised, arg, ret>>

\* main: a directory is handed to process_directory.
MainDirectory ==
    /\ pc = "start"
    /\ IsDir(fs, argv.input_path)
    /\ color' = parse_color(argv.color)
    /\ pc' = "process_directory"
    /\ UNCHANGED <<platform, argv, fs, fs0, output_dir, exts_left, image_files, idx,
                   success_count, outcomes, stdout, raised, arg, ret>>

\* process_directory up to the glob loop: the existence check and the mkdir.
ProcessDirectoryStart ==
    /\ pc = "process_directory"
    /\ IF ~Exists(fs, argv.input_path)
       THEN /\ stdout' = Append(stdout, [msg |-> "directory does not exist", name |-> argv.input_path[Len(argv.input_path)]])
            /\ pc' = "done"
            /\ UNCHANGED <<fs, output_dir, exts_left, raised>>
       ELSE \E dir \in {Parent(argv.input_path)
                            \o <<argv.input_path[Len(argv.input_path)] \o WatermarkSuffix>>} :
              \E made \in {Mkdir(fs, dir)} :
                /\ output_dir' = dir
                /\ fs' = made.fs
                /\ raised' = made.exc
                /\ stdout' = IF made.exc = "" THEN Append(stdout, [msg |-> "output directory", name |-> dir[Len(dir)]])
                             ELSE stdout
                /\ exts_left' = IF made.exc = "" THEN supported_formats ELSE {}
                /\ pc' = IF made.exc = "" THEN "glob" ELSE "done"
    /\ UNCHANGED <<platform, argv, fs0, color, image_files, idx, success_count, outcomes, arg, ret>>

\* One round of the loop over supported_formats (a set: any order): the
\* pattern as written, then the pattern in upper case.
GlobExt ==
    /\ pc = "glob"
    /\ \E ext \in exts_left :
         \E lower \in Orderings(Glob(platform, fs, argv.input_path, ext)),
            upper \in Orderings(Glob(platform, fs, argv.input_path, Upper(ext))) :
              /\ image_files' = image_files \o lower \o upper
              /\ exts_left' = exts_left \ {ext}
    /\ UNCHANGED <<platform, argv, fs, fs0, pc, color, output_dir, idx, success_count,
                   outcomes, stdout, raised, arg, ret>>

\* The list is complete and empty: report and return.
NoImagesFound ==
    /\ pc = "glob" /\ exts_left = {} /\ image_files = <<>>
    /\ stdout' = Append(stdout, [msg |-> "no supported images", name |-> <<>>])
    /\ pc' = "done"
    /\ UNCHANGED <<platform, argv, fs, fs0, color, output_dir, exts_left, image_files, idx,
                   success_count, outcomes, raised, arg, ret>>

\* The list is complete and not empty: the counter starts at zero.
LoopStart ==
    /\ pc = "glob" /\ exts_left = {} /\ image_files # <<>>
    /\ stdout' = Append(stdout, [msg |-> "found", total |-> Len(image_files)])
    /\ success_count' = 0
    /\ idx' = 0
    /\ pc' = "loop"
    /\ UNCHANGED <<platform, argv, fs, fs0, color, output_dir, exts_left, image_files,
                   outcomes, raised, arg, ret>>

\* The mistake of an iteration without the except: a failure leaves the loop.
LoopIter_NoCatch ==
    /\ pc = "loop" /\ idx < Len(image_files)
    /\ \E r \in {add_watermark(fs, image_files[idx + 1],
                              OutputPath(output_dir, image_files[idx + 1]),
                              color, argv.position)} :
           /\ fs' = r.fs
           /\ success_count' = IF r.exc = "" THEN success_count + 1 ELSE success_count
           /\ outcomes' = Append(outcomes, IF r.exc = "" THEN "ok" ELSE "failed")
           /\ stdout' = stdout \o r.out
           /\ raised' = r.exc
           /\ pc' = IF r.exc = "" THEN pc ELSE "done"
    /\ idx' = idx + 1
    /\ UNCHANGED <<platform, argv, fs0, color, output_dir, exts_left, image_files, arg, ret>>

\* One iteration of the loop over image_files, with its try and except.
LoopIter ==
    /\ pc = "loop" /\ idx < Len(image_files)
    /\ \E r \in {add_watermark(fs, image_files[idx + 1],
                              OutputPath(output_dir, image_files[idx + 1]),
                              color, argv.position)} :
           /\ fs' = r.fs
           /\ success_count' = IF r.exc = "" THEN success_count + 1 ELSE success_count
           /\ outcomes' = Append(outcomes, IF r.exc = "" THEN "ok" ELSE "failed")
           /\ stdout' = stdout \o r.out
                        \o (IF r.exc = "" THEN <<>>
                            ELSE <<[msg |-> "failed",
                                     name |-> image_files[idx + 1][Len(image_files[idx + 1])]]>>)
    /\ idx' = idx + 1
    /\ UNCHANGED <<platform, argv, fs0, pc, color, output_dir, exts_left, image_files,
                   raised, arg, ret>>

\* The loop is over: the final report.
LoopEnd ==
    /\ pc = "loop" /\ idx = Len(image_files)
    /\ stdout' = stdout \o <<[msg |-> "tally", success |-> success_count, total |-> Len(image_files)],
                             [msg |-> "output directory", name |-> output_dir[Len(output_dir)]]>>
    /\ pc' = "done"
    /\ UNCHANGED <<platform, argv, fs, fs0, color, output_dir, exts_left, image_files, idx,
                   success_count, outcomes, raised, arg, ret>>

-----------------------------------------------------------------------------
(* The pure functions under test: inputs drawn in Init, one call each *)

ValidStamp == Str(<<"2", "0", "2", "3", ":", "1", "0", ":", "1", "5", " ", "1", "4", ":", "3", "0", ":", "2", "5">>)

OtherStamp == Str(<<"2", "0", "2", "1", ":", "0", "2", ":", "2", "8", " ", "2", "3", ":", "5", "9", ":", "5", "9">>)

ShortStamp == Str(<<"2", "0", "2", "4", ":", "2", ":", "2", "9", " ", "7", ":", "0", "5", ":", "9">>)

ZeroStamp == Str(<<"0", "0", "0", "0", ":", "0", "0", ":", "0", "0", " ", "0", "0", ":", "0", "0", ":", "0", "0">>)

DashStamp == Str(<<"2", "0", "2", "3", "-", "1", "0", "-", "1", "5", " ", "1", "4", ":", "3", "0", ":", "2", "5">>)

NoSuchDay == Str(<<"2", "0", "2", "3", ":", "0", "2", ":", "2", "9", " ", "1", "0", ":", "0", "0", ":", "0", "0">>)

\* A DateTime field of a type other than ASCII: Pillow hands it over as bytes.
BytesStamp == Bytes(<<"2", "0", "2", "0", ":", "0", "1", ":", "0", "1", " ", "0", "0", ":", "0", "0", ":", "0", "0">>)

StampValues == {ValidStamp, OtherStamp, ShortStamp, ZeroStamp, DashStamp, NoSuchDay, BytesStamp}

TagSet == {TagOrder[i] : i \in 1..Len(TagOrder)}

TagMappings == UNION {[D -> StampValues] : D \in SUBSET TagSet}

\* What the imaging library makes of a file: whether it decodes, its EXIF
\* container, and whether the result can be encoded and written.
Image(decodable, exif, encodable) ==
    [decodable |-> decodable, exif |-> exif, encodable |-> encodable]

DateInputs ==
    {Image(TRUE, Exif(t), TRUE) : t \in TagMappings}
        \cup {Image(TRUE, NoExif, TRUE), Image(TRUE, BadExif, TRUE), Image(FALSE, NoExif, TRUE)}

Pending == [state |-> "pending"]

Returned(v) == [state |-> "returned", val |-> v]

Idle ==
    /\ platform = "linux" /\ argv = <<>> /\ fs = <<>> /\ fs0 = <<>> /\ pc = "idle"
    /\ color = White /\ output_dir = <<>> /\ exts_left = {} /\ image_files = <<>>
    /\ idx = 0 /\ success_count = 0 /\ outcomes = <<>> /\ stdout = <<>> /\ raised = ""

InitDate == Idle /\ arg \in DateInputs /\ ret = Pending

CallDate ==
    /\ ret = Pending
    /\ ret' = Returned(get_shooting_date(arg))
    /\ UNCHANGED <<arg, runVars>>

SpecDate == InitDate /\ [][CallDate]_vars

MaxHexLen == 7

MaxComponents == 4

HexAlphabet == {"0", "F", "g"}

ComponentPool == {<<"0">>, <<"2", "5", "5">>, <<"2", "5", "6">>, <<"-", "1">>, <<>>, <<" ", "1", "2">>, <<"x">>}

RECURSIVE Join(_, _)
Join(parts, sep) ==
    IF Len(parts) = 1 THEN parts[1] ELSE parts[1] \o sep \o Join(Tail(parts), sep)

ColorInputs ==
    {e.name : e \in colors} \cup {Upper(e.name) : e \in colors}
        \cup {<<>>, <<"p", "u", "r", "p", "l", "e">>, <<"W", "h", "i", "t", "e">>, <<"F", "F", "F", "F", "F", "F">>}
        \cup {<<"#">> \o h : h \in UNION {[1..n -> HexAlphabet] : n \in 0..MaxHexLen}}
        \cup {Join(c, <<",">>) : c \in UNION {[1..n -> ComponentPool] : n \in 2..MaxComponents}}

InitColor == Idle /\ arg \in ColorInputs /\ ret = Pending

CallColor ==
    /\ ret = Pending
    /\ ret' = Returned(parse_color(arg))
    /\ UNCHANGED <<arg, runVars>>

SpecColor == InitColor /\ [][CallColor]_vars

MaxDim == 24

MaxText == 4

PlaceInputs ==
    [img_width : 1..MaxDim, img_height : 1..MaxDim,
     text_width : 1..MaxText, text_height : 1..MaxText,
     position : Positions \cup {"middle"}]

InitPlace == Idle /\ arg \in PlaceInputs /\ ret = Pending

CallPlace ==
    /\ ret = Pending
    /\ ret' = Returned(WatermarkXY(arg.img_width, arg.img_height,
                                   arg.text_width, arg.text_height, arg.position))
    /\ UNCHANGED <<arg, runVars>>

SpecPlace == InitPlace /\ [][CallPlace]_vars

-----------------------------------------------------------------------------
(* A run of main: the host, the command line and the file system are drawn *)
(* in Init.                                                                *)

MaxFiles == 3

Photos == <<"p", "h", "o", "t", "o", "s">>

\* The files a directory may hold, by name.
Pool ==
    { [name |-> <<"a", ".", "j", "p", "g">>,
       data |-> Image(TRUE, Exif([DateTimeOriginal |-> ValidStamp]), TRUE)],
      [name |-> <<"b", ".", "t", "x", "t">>,
       data |-> Image(FALSE, NoExif, FALSE)],
      [name |-> <<"c", ".", "J", "p", "g">>,
       data |-> Image(TRUE, NoExif, TRUE)],
      [name |-> <<"d", ".", "P", "N", "G">>,
       data |-> Image(TRUE, BadExif, TRUE)],
      [name |-> <<"e", ".", "b", "m", "p">>,
       data |-> Image(FALSE, NoExif, TRUE)],
      [name |-> <<"f", ".", "t", "i", "f", "f">>,
       data |-> Image(TRUE, Exif([DateTime |-> ZeroStamp, DateTimeDigitized |-> OtherStamp]), FALSE)],
      [name |-> <<"g", ".", "j", "p", "e", "g">>,
       data |-> Image(TRUE, Exif([DateTime |-> DashStamp]), TRUE)] }

\* The files beside the input directory: the pool, and one more format.
Beside ==
    Pool \cup { [name |-> <<"h", ".", "G", "I", "F">>,
       data |-> Image(TRUE, NoExif, TRUE)] }

\* Names an output directory will be looked for under.
OutputNames ==
    {<<"p", "h", "o", "t", "o", "s", "_", "w", "a", "t", "e", "r", "m", "a", "r", "k">>, <<"a", "_", "w", "a", "t", "e", "r", "m", "a", "r", "k">>, <<"b", "_", "w", "a", "t", "e", "r", "m", "a", "r", "k">>, <<"c", "_", "w", "a", "t", "e", "r", "m", "a", "r", "k">>, <<"d", "_", "w", "a", "t", "e", "r", "m", "a", "r", "k">>, <<"e", "_", "w", "a", "t", "e", "r", "m", "a", "r", "k">>, <<"f", "_", "w", "a", "t", "e", "r", "m", "a", "r", "k">>, <<"g", "_", "w", "a", "t", "e", "r", "m", "a", "r", "k">>, <<"h", "_", "w", "a", "t", "e", "r", "m", "a", "r", "k">>}

Nowhere == <<"n", "o", "w", "h", "e", "r", "e">>

RECURSIVE Populate(_, _, _)
\* The file system with one file node per entry, under dir.
Populate(files, dir, entries) ==
    IF entries = {} THEN files
    ELSE LET e == CHOOSE x \in entries : TRUE
         IN  Populate((dir \o <<e.name>> :> FileNode(e.data)) @@ files, dir, entries \ {e})

RECURSIVE Occupy(_, _, _)
\* The file system with every one of the names taken by a node.
Occupy(files, names, node) ==
    IF names = {} THEN files
    ELSE LET n == CHOOSE x \in names : TRUE
         IN  Occupy((<<n>> :> node) @@ files, names \ {n}, node)

\* What is found where the output directory goes: nothing, a directory left
\* by an earlier run, or a regular file.
Taken(files, how) ==
    IF how = "absent" THEN files
    ELSE IF how = "dir" THEN Occupy(files, OutputNames, DirNode)
    ELSE Occupy(files, OutputNames, FileNode(Image(FALSE, NoExif, FALSE)))

BaseFiles == Populate((<<Photos>> :> DirNode), <<>>, Beside)

RunColors == {<<"w", "h", "i", "t", "e">>}

RunPositions == {"bottom-right", "center"}

InitRun ==
    /\ platform \in Platforms
    /\ \E how \in {"absent", "dir", "file"} :
         \/ /\ \E entries \in {e \in SUBSET Pool : Cardinality(e) <= MaxFiles} :
                 fs = Taken(Populate(BaseFiles, <<Photos>>, entries), how)
            /\ argv \in [input_path : {<<Photos>>}, color : RunColors, position : RunPositions]
         \/ /\ fs = Taken(BaseFiles, how)
            /\ argv \in [input_path : {<<e.name>> : e \in Beside} \cup {<<Nowhere>>},
                         color : RunColors, position : RunPositions]
    /\ fs0 = fs
    /\ pc = "start"
    /\ color = White
    /\ output_dir = <<>>
    /\ exts_left = {}
    /\ image_files = <<>>
    /\ idx = 0
    /\ success_count = 0
    /\ outcomes = <<>>
    /\ stdout = <<>>
    /\ raised = ""
    /\ arg = <<>>
    /\ ret = Pending

Next ==
    \/ MainMissingPath
    \/ MainUnsupportedFile
    \/ MainSingleFile
    \/ SingleAdd
    \/ MainDirectory
    \/ ProcessDirectoryStart
    \/ GlobExt
    \/ NoImagesFound
    \/ LoopStart
    \/ LoopIter
    \/ LoopEnd

Spec == InitRun /\ [][Next]_vars

-----------------------------------------------------------------------------
(* Vocabulary of the properties *)

Done == pc = "done"

InputName == argv.input_path[Len(argv.input_path)]

DirectoryMode == IsDir(fs0, argv.input_path)

SingleMode == IsFile(fs0, argv.input_path)

\* The files the run has attempted so far, in order.
Attempted ==
    IF DirectoryMode THEN SubSeq(image_files, 1, Len(outcomes))
    ELSE IF Len(outcomes) = 1 THEN <<argv.input_path>> ELSE <<>>

\* The image the attempted file held when the run started.
SourceOf(i) == fs0[Attempted[i]].data

\* Neither decoding nor encoding fails for the i-th attempted file.
LibraryWorks(i) == SourceOf(i).decodable /\ SourceOf(i).encodable

\* The name up to its dot, for a name with one dot.
BeforeDot(name) == SubSeq(name, 1, (CHOOSE k \in 1..Len(name) : name[k] = ".") - 1)

\* Where the outputs of this run belong.
ExpectedOutputDir ==
    IF DirectoryMode THEN <<InputName \o <<"_", "w", "a", "t", "e", "r", "m", "a", "r", "k">>>>
    ELSE <<BeforeDot(InputName) \o <<"_", "w", "a", "t", "e", "r", "m", "a", "r", "k">>>>

\* The regular files that were not there when the run started.
NewFiles == {p \in DOMAIN fs \ DOMAIN fs0 : fs[p].kind = "file"}

\* The extension is one of the supported ones, whatever its case.
SupportedName(name) == \E ext \in supported_formats : EndsWith(Lower(name), ext)

\* How many of the printed messages satisfy Is.
Printed(Is(_)) == Cardinality({k \in 1..Len(stdout) : Is(stdout[k])})

IsTally(m) == m.msg = "tally"

-----------------------------------------------------------------------------
(* C1 *)

-----------------------------------------------------------------------------
(* C3 *)

IsAttemptMessage(m) == m.msg \in {"saved", "error processing"}

\* add_watermark raises for the i-th attempted file.
Raises(i) == ~LibraryWorks(i)

\* C3: in the loop of process_directory every entry of the list is visited
\* once and in order; an entry add_watermark raises for is recorded as failed
\* and leaves the counter alone, the entries after it are still visited, the
\* number of entries visited never passes the length of the list (so the loop
\* can always take its next step, an iteration or its end), and the loop ends
\* after the last entry with the report printed.
C3_FailureSkipsOnlyThatFile ==
    (pc = "loop" \/ (Done /\ DirectoryMode /\ image_files # <<>>)) =>
        /\ Len(outcomes) = idx /\ idx <= Len(image_files)
        /\ \A i \in 1..idx : (outcomes[i] = "failed") <=> Raises(i)
        /\ success_count = Cardinality({i \in 1..idx : outcomes[i] = "ok"})
        /\ Printed(IsAttemptMessage) = idx
        /\ Done => /\ idx = Len(image_files)
                   /\ raised = ""
                   /\ Printed(IsTally) = 1
                   /\ \E k \in 1..Len(stdout) :
                         /\ stdout[k].msg = "tally"
                         /\ stdout[k].success = success_count
                         /\ stdout[k].total = Len(image_files)

\* A run has ended in which a failed entry was followed by a successful one.
C3_Witness ==
    /\ Done /\ DirectoryMode
    /\ \E i \in 1..(Len(outcomes) - 1) : outcomes[i] = "failed" /\ outcomes[i + 1] = "ok"
    /\ Printed(IsTally) = 1

-----------------------------------------------------------------------------
(* C6 *)

\* No timestamp tag of the image holds a text in the expected pattern: there
\* is no EXIF container, it cannot be read, or none of its tags parses.
NoUsableDate(img) ==
    \/ img.exif.state \in {"none", "raise"}
    \/ \A t \in DOMAIN img.exif.tags : StrPTime(img.exif.tags[t]).exc # ""

IsNoDateWarning(m) == m.msg = "no shooting date"

-----------------------------------------------------------------------------
(* C7 *)

\* main was given a path that is not there, or a file of an unsupported format.
RejectedInput ==
    \/ ~Exists(fs0, argv.input_path)
    \/ SingleMode /\ ~SupportedName(InputName)

\* C7: for such an input nothing is created or written, add_watermark is
\* never called, nothing is raised, and the run ends having printed the one
\* error message.
C7_RejectedInputLeavesNothing ==
    RejectedInput =>
        /\ fs = fs0
        /\ outcomes = <<>>
        /\ Printed(IsAttemptMessage) = 0
        /\ raised = ""
        /\ pc \in {"start", "done"}
        /\ Done => /\ Len(stdout) = 1
                   /\ stdout[1].msg = IF Exists(fs0, argv.input_path) THEN "unsupported format"
                                      ELSE "path does not exist"

\* A run on a file with an upper-case unsupported suffix has ended.
C7_Witness ==
    /\ Done /\ SingleMode
    /\ InputName = <<"h", ".", "G", "I", "F">>
    /\ stdout = <<[msg |-> "unsupported format", name |-> <<".", "G", "I", "F">>]>>

-----------------------------------------------------------------------------
(* C8 *)

\* C8: no exception leaves main.
C8_NothingLeavesMain == raised = ""

-----------------------------------------------------------------------------
(* C2 *)

\* The scenario: default options, a directory holding a.jpg and b.txt, and no
\* regular file where the output directory goes.
C2_Scenario ==
    /\ argv.input_path = <<Photos>> /\ argv.position = "bottom-right"
    /\ argv.color = <<"w", "h", "i", "t", "e">>
    /\ {p \in DOMAIN fs0 : Len(p) = 2 /\ p[1] = Photos}
           = {<<Photos, <<"a", ".", "j", "p", "g">>>>, <<Photos, <<"b", ".", "t", "x", "t">>>>}
    /\ ~IsFile(fs0, <<<<"p", "h", "o", "t", "o", "s", "_", "w", "a", "t", "e", "r", "m", "a", "r", "k">>>>)

\* C2: the scenario ends with a.jpg written to the output directory with the
\* text 2023-10-15 at the bottom-right anchor, b.txt never attempted, and the
\* tally 1 of 1.
C2_ScenarioTally ==
    C2_Scenario /\ Done =>
        /\ IsFile(fs, <<<<"p", "h", "o", "t", "o", "s", "_", "w", "a", "t", "e", "r", "m", "a", "r", "k">>, <<"a", ".", "j", "p", "g">>>>)
        /\ fs[<<<<"p", "h", "o", "t", "o", "s", "_", "w", "a", "t", "e", "r", "m", "a", "r", "k">>, <<"a", ".", "j", "p", "g">>>>].data.text = <<"2", "0", "2", "3", "-", "1", "0", "-", "1", "5">>
        /\ fs[<<<<"p", "h", "o", "t", "o", "s", "_", "w", "a", "t", "e", "r", "m", "a", "r", "k">>, <<"a", ".", "j", "p", "g">>>>].data.xy
               = <<ImageWidth - 10 * GlyphWidth - 20, ImageHeight - GlyphHeight - 20>>
        /\ \A i \in 1..Len(image_files) : image_files[i] # <<Photos, <<"b", ".", "t", "x", "t">>>>
        /\ \E k \in 1..Len(stdout) :
              stdout[k].msg = "tally" /\ stdout[k].success = 1 /\ stdout[k].total = 1

-----------------------------------------------------------------------------
(* C4 *)

\* The entries of the input directory with a supported extension.
SupportedEntries ==
    {p \in DOMAIN fs0 : Len(p) = 2 /\ p[1] = InputName /\ fs0[p].kind = "file"
                        /\ SupportedName(p[2])}

\* C4: a directory run that got its output directory ends having attempted
\* exactly the entries with a supported extension, whatever its case, each
\* once, and having reported success_count/N with 0 <= success_count <= N.
C4_ExactlyTheSupportedFiles ==
    Done /\ DirectoryMode /\ raised = "" =>
        /\ {image_files[i] : i \in 1..Len(image_files)} = SupportedEntries
        /\ Len(image_files) = Cardinality(SupportedEntries)
        /\ Len(outcomes) = Len(image_files)
        /\ SupportedEntries # {} =>
              \E k \in 1..Len(stdout) :
                  /\ stdout[k].msg = "tally"
                  /\ stdout[k].total = Cardinality(SupportedEntries)
                  /\ stdout[k].success \in 0..Cardinality(SupportedEntries)

-----------------------------------------------------------------------------
(* C5 *)

\* The value is a text in the pattern "YYYY:MM:DD HH:MM:SS".
MatchesPattern(value) == value.type = "str" /\ StrPTime(value).exc = ""

\* The tags that hold a matching value, by their place in the priority order.
Usable(tags) ==
    {i \in 1..3 : <<"DateTime", "DateTimeOriginal", "DateTimeDigitized">>[i] \in DOMAIN tags
                  /\ MatchesPattern(tags[<<"DateTime", "DateTimeOriginal", "DateTimeDigitized">>[i]])}

\* The date of the first usable tag, None when there is none.
FirstUsableDate(tags) ==
    IF Usable(tags) = {} THEN None
    ELSE StrFTime(StrPTime(tags[<<"DateTime", "DateTimeOriginal", "DateTimeDigitized">>[
                      CHOOSE i \in Usable(tags) : \A j \in Usable(tags) : i <= j]]).val)

\* C5: for every tag mapping get_shooting_date returns the date of the first
\* tag in priority order whose value matches the pattern, skipping absent and
\* non-matching values of any type, and None only when no tag matches.
C5_FirstMatchingTagWins ==
    ret.state = "returned" /\ arg.decodable /\ arg.exif.state = "tags" =>
        ret.val.val = FirstUsableDate(arg.exif.tags)

-----------------------------------------------------------------------------
(* C9 *)

IsRgbTriple(t) == DOMAIN t = 1..3 /\ \A k \in 1..3 : t[k] \in 0..255

NamedColor(str) == \E e \in colors : e.name = Lower(str)

\* '#' and six hexadecimal digits.
HexColor(str) ==
    Len(str) = 7 /\ str[1] = "#" /\ \A i \in 2..7 : DigitValue(str[i], 16) >= 0

\* Three numbers of 0..255 between commas.
TripleColor(str) ==
    /\ Len(Split(str, ",")) = 3
    /\ \A k \in 1..3 : /\ PyInt(Split(str, ",")[k], 10).exc = ""
                       /\ PyInt(Split(str, ",")[k], 10).val \in 0..255

\* C9: parse_color returns three integers of 0..255 for every text: the table
\* value of a name, the bytes of #RRGGBB, the numbers of R,G,B, and white for
\* everything else.
C9_AlwaysAnRgbTriple ==
    ret.state = "returned" =>
        /\ IsRgbTriple(ret.val)
        /\ NamedColor(arg) => \E e \in colors : e.name = Lower(arg) /\ ret.val = e.rgb
        /\ HexColor(arg) =>
              ret.val = [k \in 1..3 |-> 16 * DigitValue(arg[2 * k], 16) + DigitValue(arg[2 * k + 1], 16)]
        /\ TripleColor(arg) => ret.val = [k \in 1..3 |-> PyInt(Split(arg, ",")[k], 10).val]
        /\ ~NamedColor(arg) /\ ~HexColor(arg) /\ ~TripleColor(arg) => ret.val = <<255, 255, 255>>

-----------------------------------------------------------------------------
(* C10 *)

\* n floor-divided by 2: the q with 2q <= n < 2q + 2.
HalfFloor(n) == CHOOSE q \in (0 - MaxText - 1)..MaxDim : 2 * q <= n /\ n < 2 * q + 2

\* Where the claim puts the text.
AnchorXY(W, H, w, h, position) ==
    CASE position = "top-left" -> <<20, 20>>
      [] position = "top-right" -> <<W - w - 20, 20>>
      [] position = "bottom-left" -> <<20, H - h - 20>>
      [] position = "center" -> <<HalfFloor(W - w), HalfFloor(H - h)>>
      [] OTHER -> <<W - w - 20, H - h - 20>>

\* C10 as stated: the anchor formulas, and on each axis a coordinate that is
\* negative exactly when the text box plus the margin (for center, the text
\* box alone) exceeds the image.
C10_NegativeExactlyWhenTooLarge ==
    ret.state = "returned" =>
        /\ ret.val = AnchorXY(arg.img_width, arg.img_height, arg.text_width, arg.text_height,
                              arg.position)
        /\ (ret.val[1] < 0) <=>
              (IF arg.position = "center" THEN arg.text_width > arg.img_width
               ELSE arg.text_width + 20 > arg.img_width)
        /\ (ret.val[2] < 0) <=>
              (IF arg.position = "center" THEN arg.text_height > arg.img_height
               ELSE arg.text_height + 20 > arg.img_height)

\* C10, amended: the anchor formulas; a coordinate measured from the far edge
\* (x of the right anchors, y of the bottom anchors) is negative exactly when
\* the text box plus the margin exceeds the image on that axis, a centred one
\* exactly when the text box alone does, and one measured from the near edge
\* is 20 whatever the sizes.
C10_Placement ==
    ret.state = "returned" =>
        /\ ret.val = AnchorXY(arg.img_width, arg.img_height, arg.text_width, arg.text_height,
                              arg.position)
        /\ IF arg.position \in {"top-left", "bottom-left"} THEN ret.val[1] = 20
           ELSE IF arg.position = "center"
                THEN (ret.val[1] < 0) <=> (arg.text_width > arg.img_width)
           ELSE (ret.val[1] < 0) <=> (arg.text_width + 20 > arg.img_width)
        /\ IF arg.position \in {"top-left", "top-right"} THEN ret.val[2] = 20
           ELSE IF arg.position = "center"
                THEN (ret.val[2] < 0) <=> (arg.text_height > arg.img_height)
           ELSE (ret.val[2] < 0) <=> (arg.text_height + 20 > arg.img_height)

\* A text wider than the image minus the margin was placed bottom-right, left
\* of the image's edge, by a position that is none of the five names.
C10_Witness ==
    /\ ret.state = "returned"
    /\ arg.position = "middle"
    /\ ret.val[1] < 0 /\ ret.val[2] >= 0
    /\ ret.val = <<arg.img_width - arg.text_width - 20, arg.img_height - arg.text_height - 20>>

=============================================================================
